---- MODULE Spec2Model ----
(***************************************************************************)
(* Model of src/main.py: the /scrape handler scrape_tariffs of the Energy  *)
(* Partner scraper.  One request is one run of the handler; every awaited  *)
(* browser call is a point where the call can raise.  The portal (the page *)
(* behind the browser) is the environment: what it renders is chosen from  *)
(* small sets.                                                             *)
(*                                                                         *)
(* Line 236 of src/main.py does not parse as written (a stray quote before *)
(* the closing bracket of the selector); the model reads it as the         *)
(* selector that line 246 builds, with .egon-provision-btn in place of     *)
(* .egon-provision-value.                                                  *)
(***************************************************************************)
EXTENDS Naturals, Sequences, FiniteSets, TLC

VARIABLES
    PORTAL_USERNAME,    \* module global, read once from the environment
    PORTAL_PASSWORD,    \* module global, read once from the environment
    request,            \* request[r]: the ScrapeRequest of run r
    pc,                 \* pc[r]: where run r stands in scrape_tariffs
    playwright,         \* playwright[r]: the async_playwright() driver of run r
    browser,            \* browser[r]: the chromium instance of run r
    page,               \* page[r]: the portal page as run r's browser shows it
    exc,                \* exc[r]: the exception in flight in run r
    raised,             \* raised[r]: every exception run r has raised, in order
    log,                \* log[r]: the driver and browser calls run r has issued
    tariffs_data,       \* tariffs_data[r]: the list page.evaluate returned
    tariff_idx,         \* tariff_idx[r]: position of the drill-down loop
    response,           \* response[r]: what the handler hands to its caller
    error_screenshot    \* the file /tmp/error_screenshot.png: who wrote it last

vars == <<PORTAL_USERNAME, PORTAL_PASSWORD, request, pc, playwright, browser,
          page, exc, raised, log, tariffs_data, tariff_idx, response,
          error_screenshot>>

\* Python's None / JavaScript's null.
None == "None"

-----------------------------------------------------------------------------
(* Bounds of the model *)

\* Most result items the portal renders for one request.
MaxItems == 3

\* Requests in flight at once in the concurrent specification.
NumRequests == 2

\* Result items of the long list the portal renders.
CrowdSize == 21

-----------------------------------------------------------------------------
(* Timeouts of the waits, in milliseconds *)

EgonTimeout == 10000
FieldTimeout == 5000
ResultsTimeout == 15000
\* Playwright's default timeout, used by every call that names none.
DefaultTimeout == 30000

\* str(e) of Playwright's TimeoutError for a wait of ms milliseconds.
TimeoutMsg(ms) ==
    CASE ms = 5000 -> "Timeout 5000ms exceeded."
      [] ms = 10000 -> "Timeout 10000ms exceeded."
      [] ms = 15000 -> "Timeout 15000ms exceeded."
      [] OTHER -> "Timeout 30000ms exceeded."

\* str(e) of any other error a driver or browser call raises.
BrowserError == "Target page, context or browser has been closed"

LoginFailedMsg == "Login failed - check credentials"

NoResultsMsg(e) == "No tariff results found. Error: " \o e

CredentialsDetail ==
    "Portal credentials not configured. Set PORTAL_USERNAME and PORTAL_PASSWORD env vars."

-----------------------------------------------------------------------------
(* Values of the environment and of the request *)

\* os.getenv: unset, set but empty, or set.
EnvValues == {None, "", "makler"}

\* Python truthiness of an Optional[str].
Truthy(s) == s # None /\ s # ""

OrtValues == {None, "Bernau", "Potsdam"}
StrasseValues == {None, "Hauptstr", "Nebenweg"}
HausnummerValues == {None, "7"}

ScrapeRequest ==
    [plz : {"10115"}, verbrauch : {3500}, ort : OrtValues, strasse : StrasseValues,
     hausnummer : HausnummerValues, include_provisions : BOOLEAN]

\* The request of the concurrent specification's runs.
PlainRequest ==
    [plz |-> "10115", verbrauch |-> 3500, ort |-> None, strasse |-> None,
     hausnummer |-> None, include_provisions |-> TRUE]

\* A page nothing has been entered into.
BlankPage ==
    [zip |-> "", cityOptions |-> <<>>, city |-> None, streetOptions |-> <<>>,
     street |-> None, street_number |-> "", netz_id |-> "", consum |-> "",
     items |-> <<>>]

NoResponse == [kind |-> None]

\* raise HTTPException(status_code, detail), as the caller sees it.
HTTPException(status_code, detail) ==
    [kind |-> "HTTPException", status_code |-> status_code, detail |-> detail]

\* The ScrapeResponse model.
ScrapeResponse(success, tariffs, count, error) ==
    [kind |-> "ScrapeResponse", success |-> success, tariffs |-> tariffs,
     count |-> count, error |-> error]

-----------------------------------------------------------------------------
(* The environment a specification runs the handler in: whether calls can  *)
(* raise, and what the portal may render.                                  *)

\* The options the portal may leave in the city and the street field when the
\* wait ends (the first is the placeholder), and the grid operator it resolves.
Placeholder == "Bitte waehlen"
CityRenderings == {<<Placeholder>>, <<Placeholder, "Berlin", "Bernau">>}
StreetRenderings == {<<Placeholder>>, <<Placeholder, "Ackerstr", "Hauptstr">>}
NetzRenderings == {"", "Kein Netzbetreiber", "Stromnetz Berlin"}

\* asyncio.sleep: the one awaited call that does not raise.
Sleeps == {"sleep:2", "sleep:0.5"}

\* The outcomes of issuing the calls in order: all return, or the k-th raises.
Attempts(w, calls) ==
    {[calls |-> calls, ok |-> TRUE]} \cup
    {[calls |-> SubSeq(calls, 1, k), ok |-> FALSE] :
        k \in IF w.faults THEN {j \in 1..Len(calls) : calls[j] \notin Sleeps} ELSE {}}

Issue(r, calls) == log' = [log EXCEPT ![r] = @ \o calls]

\* The record of an exception: the statement that raised it and its str().
Raised(r, msg) == [at |-> pc[r], idx |-> tariff_idx[r], msg |-> msg]

\* The statement at pc[r] raises; control passes to handler.
Throw(r, msg, handler) ==
    /\ exc' = [exc EXCEPT ![r] = msg]
    /\ raised' = [raised EXCEPT ![r] = Append(@, Raised(r, msg))]
    /\ pc' = [pc EXCEPT ![r] = handler]

\* An exception leaves the body of the async with block.
Raise(r, msg) == Throw(r, msg, "aexit")

Goto(r, next) ==
    /\ pc' = [pc EXCEPT ![r] = next]
    /\ UNCHANGED <<exc, raised>>

Globals == <<PORTAL_USERNAME, PORTAL_PASSWORD>>

-----------------------------------------------------------------------------
(* The handler, statement by statement *)

\* The guard on the credentials with `and` written for `or`.
CredentialsMissingBoth == ~Truthy(PORTAL_USERNAME) /\ ~Truthy(PORTAL_PASSWORD)

\* The condition of the guard on the credentials.
CredentialsMissing == ~Truthy(PORTAL_USERNAME) \/ ~Truthy(PORTAL_PASSWORD)

\* if not PORTAL_USERNAME or not PORTAL_PASSWORD: raise HTTPException(...)
CheckCredentials(r) ==
    /\ pc[r] = "start"
    /\ IF CredentialsMissing
       THEN /\ response' = [response EXCEPT ![r] = HTTPException(500, CredentialsDetail)]
            /\ raised' = [raised EXCEPT ![r] = Append(@, Raised(r, CredentialsDetail))]
            /\ pc' = [pc EXCEPT ![r] = "returned"]
       ELSE /\ pc' = [pc EXCEPT ![r] = "enter"]
            /\ UNCHANGED <<response, raised>>
    /\ UNCHANGED <<Globals, request, playwright, browser, page, exc, log,
                   tariffs_data, tariff_idx, error_screenshot>>

\* async with async_playwright() as p: entering the block starts the driver.
\* When the start raises, the block was never entered and has no exit.
EnterPlaywright(r, w) ==
    /\ pc[r] = "enter"
    /\ \E a \in Attempts(w, <<"playwright.start">>) :
        /\ Issue(r, a.calls)
        /\ IF a.ok
           THEN /\ playwright' = [playwright EXCEPT ![r] = "started"]
                /\ Goto(r, "launch")
           ELSE /\ Throw(r, BrowserError, "except")
                /\ UNCHANGED playwright
    /\ UNCHANGED <<Globals, request, browser, page, tariffs_data, tariff_idx,
                   response, error_screenshot>>

\* browser = await p.chromium.launch(...)
LaunchBrowser(r, w) ==
    /\ pc[r] = "launch"
    /\ \E a \in Attempts(w, <<"chromium.launch">>) :
        /\ Issue(r, a.calls)
        /\ IF a.ok
           THEN /\ browser' = [browser EXCEPT ![r] = "open"]
                /\ Goto(r, "new_page")
           ELSE /\ Raise(r, BrowserError)
                /\ UNCHANGED browser
    /\ UNCHANGED <<Globals, request, playwright, page, tariffs_data, tariff_idx,
                   response, error_screenshot>>

\* context = await browser.new_context(...); page = await context.new_page()
NewPage(r, w) ==
    /\ pc[r] = "new_page"
    /\ \E a \in Attempts(w, <<"new_context", "new_page">>) :
        /\ Issue(r, a.calls)
        /\ IF a.ok THEN Goto(r, "login") ELSE Raise(r, BrowserError)
    /\ UNCHANGED <<Globals, request, playwright, browser, page, tariffs_data,
                   tariff_idx, response, error_screenshot>>

LoginCalls ==
    <<"goto:login", "wait:networkidle", "fill:user", "fill:pass", "click:login",
      "wait:networkidle", "query:login_failed">>

\* Lines 91-103: open the login page, log in, and raise when the portal
\* shows "Login fehlgeschlagen".
Login(r, w) ==
    /\ pc[r] = "login"
    /\ \E a \in Attempts(w, LoginCalls), accepted \in w.logins :
        /\ Issue(r, a.calls)
        /\ IF ~a.ok THEN Raise(r, BrowserError)
           ELSE IF ~accepted THEN Raise(r, LoginFailedMsg)
           ELSE Goto(r, "navigate")
    /\ UNCHANGED <<Globals, request, playwright, browser, page, tariffs_data,
                   tariff_idx, response, error_screenshot>>

NavigateCalls == <<"goto:tarifrechner", "wait:networkidle", "wait:egon">>

\* Lines 108-112: open the tariff calculator and wait for the form's root.
Navigate(r, w) ==
    /\ pc[r] = "navigate"
    /\ \E a \in Attempts(w, NavigateCalls), rendered \in w.forms :
        /\ Issue(r, a.calls)
        /\ IF ~a.ok THEN Raise(r, BrowserError)
           ELSE IF ~rendered THEN Raise(r, TimeoutMsg(EgonTimeout))
           ELSE Goto(r, "zip")
    /\ UNCHANGED <<Globals, request, playwright, browser, page, tariffs_data,
                   tariff_idx, response, error_screenshot>>

\* Lines 118-121: click the zip field, clear it, type the postal code with
\* paced keystrokes, and click the city field.
EnterZip(r, w) ==
    /\ pc[r] = "zip"
    /\ \E a \in Attempts(w, <<"click:zip", "fill:zip", "type:zip", "click:city">>) :
        /\ Issue(r, a.calls)
        /\ IF a.ok
           THEN /\ page' = [page EXCEPT ![r].zip = request[r].plz]
                /\ Goto(r, "wait_city")
           ELSE /\ Raise(r, BrowserError)
                /\ UNCHANGED page
    /\ UNCHANGED <<Globals, request, playwright, browser, tariffs_data, tariff_idx,
                   response, error_screenshot>>

\* The predicate of the first two waits: the select has more than one option.
OptionsLoaded(options) == Len(options) > 1

\* Lines 124-130: page.wait_for_function(city options.length > 1, timeout=5000)
WaitForCity(r, w) ==
    /\ pc[r] = "wait_city"
    /\ \E a \in Attempts(w, <<"wait:city">>), options \in w.cities :
        /\ Issue(r, a.calls)
        /\ IF ~a.ok
           THEN Raise(r, BrowserError) /\ UNCHANGED page
           ELSE IF ~OptionsLoaded(options)
           THEN Raise(r, TimeoutMsg(FieldTimeout)) /\ UNCHANGED page
           ELSE /\ page' = [page EXCEPT ![r].cityOptions = options]
                /\ Goto(r, "select_city")
    /\ UNCHANGED <<Globals, request, playwright, browser, tariffs_data, tariff_idx,
                   response, error_screenshot>>

\* A select that falls back to the first real option when no label matches.
SelectByLabelOrFirst(options, label) ==
    IF \E j \in 1..Len(options) : options[j] = label
    THEN [ok |-> TRUE, value |-> label]
    ELSE [ok |-> TRUE, value |-> options[2]]

\* page.select_option(selector, label=...): the option with that label, or,
\* when no option carries it before the default timeout, a TimeoutError.
SelectByLabel(options, label) ==
    IF \E j \in 1..Len(options) : options[j] = label
    THEN [ok |-> TRUE, value |-> label]
    ELSE [ok |-> FALSE, error |-> TimeoutMsg(DefaultTimeout)]

\* A select that counts its options from 1: index=1 is the first option.
SelectByPosition(options, n) ==
    IF n \in 1..Len(options)
    THEN [ok |-> TRUE, value |-> options[n]]
    ELSE [ok |-> FALSE, error |-> TimeoutMsg(DefaultTimeout)]

\* page.select_option(selector, index=n): the option at the 0-based index n.
SelectByIndex(options, n) ==
    IF n + 1 \in 1..Len(options)
    THEN [ok |-> TRUE, value |-> options[n + 1]]
    ELSE [ok |-> FALSE, error |-> TimeoutMsg(DefaultTimeout)]

\* The if/else of lines 133-136 and 148-151.
SelectOption(options, wanted) ==
    IF Truthy(wanted) THEN SelectByLabel(options, wanted) ELSE SelectByIndex(options, 1)

\* Lines 133-136: select the city.
SelectCity(r, w) ==
    /\ pc[r] = "select_city"
    /\ \E a \in Attempts(w, <<"select:city">>) :
        LET sel == SelectOption(page[r].cityOptions, request[r].ort) IN
        /\ Issue(r, a.calls)
        /\ IF ~a.ok
           THEN Raise(r, BrowserError) /\ UNCHANGED page
           ELSE IF ~sel.ok
           THEN Raise(r, sel.error) /\ UNCHANGED page
           ELSE /\ page' = [page EXCEPT ![r].city = sel.value]
                /\ Goto(r, "wait_street")
    /\ UNCHANGED <<Globals, request, playwright, browser, tariffs_data, tariff_idx,
                   response, error_screenshot>>

\* Lines 139-145: page.wait_for_function(street options.length > 1, timeout=5000)
WaitForStreet(r, w) ==
    /\ pc[r] = "wait_street"
    /\ \E a \in Attempts(w, <<"wait:street">>), options \in w.streets :
        /\ Issue(r, a.calls)
        /\ IF ~a.ok
           THEN Raise(r, BrowserError) /\ UNCHANGED page
           ELSE IF ~OptionsLoaded(options)
           THEN Raise(r, TimeoutMsg(FieldTimeout)) /\ UNCHANGED page
           ELSE /\ page' = [page EXCEPT ![r].streetOptions = options]
                /\ Goto(r, "select_street")
    /\ UNCHANGED <<Globals, request, playwright, browser, tariffs_data, tariff_idx,
                   response, error_screenshot>>

\* Lines 148-151: select the street.
SelectStreet(r, w) ==
    /\ pc[r] = "select_street"
    /\ \E a \in Attempts(w, <<"select:street">>) :
        LET sel == SelectOption(page[r].streetOptions, request[r].strasse) IN
        /\ Issue(r, a.calls)
        /\ IF ~a.ok
           THEN Raise(r, BrowserError) /\ UNCHANGED page
           ELSE IF ~sel.ok
           THEN Raise(r, sel.error) /\ UNCHANGED page
           ELSE /\ page' = [page EXCEPT ![r].street = sel.value]
                /\ Goto(r, "street_number")
    /\ UNCHANGED <<Globals, request, playwright, browser, tariffs_data, tariff_idx,
                   response, error_screenshot>>

\* hausnr = request.hausnummer if request.hausnummer else '1'
Hausnr(req) == IF Truthy(req.hausnummer) THEN req.hausnummer ELSE "1"

\* Lines 154-156: fill the house number and click the body.
EnterHouseNumber(r, w) ==
    /\ pc[r] = "street_number"
    /\ \E a \in Attempts(w, <<"fill:street_number", "click:body">>) :
        /\ Issue(r, a.calls)
        /\ IF a.ok
           THEN /\ page' = [page EXCEPT ![r].street_number = Hausnr(request[r])]
                /\ Goto(r, "wait_netz")
           ELSE /\ Raise(r, BrowserError)
                /\ UNCHANGED page
    /\ UNCHANGED <<Globals, request, playwright, browser, tariffs_data, tariff_idx,
                   response, error_screenshot>>

\* A wait that takes any value of the field for a resolved grid operator.
NetzAnyValue(value) == TRUE

\* The predicate of the third wait: a grid operator has been resolved.
NetzResolved(value) == value # "Kein Netzbetreiber" /\ value # ""

\* Lines 159-165: page.wait_for_function(netz_id resolved, timeout=5000)
WaitForNetz(r, w) ==
    /\ pc[r] = "wait_netz"
    /\ \E a \in Attempts(w, <<"wait:netz">>), value \in w.netze :
        /\ Issue(r, a.calls)
        /\ IF ~a.ok
           THEN Raise(r, BrowserError) /\ UNCHANGED page
           ELSE IF ~NetzResolved(value)
           THEN Raise(r, TimeoutMsg(FieldTimeout)) /\ UNCHANGED page
           ELSE /\ page' = [page EXCEPT ![r].netz_id = value]
                /\ Goto(r, "consum")
    /\ UNCHANGED <<Globals, request, playwright, browser, tariffs_data, tariff_idx,
                   response, error_screenshot>>

\* Line 168: fill the consumption with str(request.verbrauch).
EnterConsumption(r, w) ==
    /\ pc[r] = "consum"
    /\ \E a \in Attempts(w, <<"fill:consum">>) :
        /\ Issue(r, a.calls)
        /\ IF a.ok
           THEN /\ page' = [page EXCEPT ![r].consum = ToString(request[r].verbrauch)]
                /\ Goto(r, "submit")
           ELSE /\ Raise(r, BrowserError)
                /\ UNCHANGED page
    /\ UNCHANGED <<Globals, request, playwright, browser, tariffs_data, tariff_idx,
                   response, error_screenshot>>

\* A submit after which the handler goes straight to the extraction, without
\* the wait for the first result item.
SubmitWithoutWait(r, w) ==
    /\ pc[r] = "submit"
    /\ \E a \in Attempts(w, <<"click:submit">>) :
        /\ Issue(r, a.calls)
        /\ IF a.ok THEN Goto(r, "extract") ELSE Raise(r, BrowserError)
    /\ UNCHANGED <<Globals, request, playwright, browser, page, tariffs_data,
                   tariff_idx, response, error_screenshot>>

\* Line 173: click "jetzt Tarife berechnen".
Submit(r, w) ==
    /\ pc[r] = "submit"
    /\ \E a \in Attempts(w, <<"click:submit">>) :
        /\ Issue(r, a.calls)
        /\ IF a.ok THEN Goto(r, "wait_results") ELSE Raise(r, BrowserError)
    /\ UNCHANGED <<Globals, request, playwright, browser, page, tariffs_data,
                   tariff_idx, response, error_screenshot>>

-----------------------------------------------------------------------------
(* The result items of the portal and their extraction *)

\* JavaScript's undefined, the value of an optional chain on a missing element.
Undefined == "undefined"

\* A result item whose markup carries the primary class names and the
\* data-tariff-id attribute, with its commission button and value.
ItemFull ==
    [attrs |-> ("data-tariff-id" :> "t1"),
     els |-> (".egon-provider-name" :> " Vattenfall " @@ ".egon-tariff-name" :> "Basis"
              @@ ".egon-price-month" :> "29,90€" @@ ".egon-price-year" :> "1.234,56 €"
              @@ ".egon-provision-btn" :> "Provision" @@ ".egon-provision-value" :> "120,00 €"),
     throws |-> FALSE]

\* A result item of another markup revision: data-field elements and data-id.
ItemFallback ==
    [attrs |-> ("data-id" :> "d2"),
     els |-> ("[data-field=provider]" :> "EnBW" @@ "[data-field=tariff]" :> "Komfort"
              @@ "[data-field=price_month]" :> "31,50€"
              @@ ".egon-provision-btn" :> "Provision" @@ ".egon-provision-value" :> "80,00 €"),
     throws |-> FALSE]

\* A malformed result item: none of the elements or attributes is there.
ItemBare == [attrs |-> <<>>, els |-> <<>>, throws |-> FALSE]

\* A malformed result item on which a DOM access of the parse throws.
ItemThrows == [attrs |-> <<>>, els |-> <<>>, throws |-> TRUE]

ItemKinds == {ItemFull, ItemFallback, ItemBare, ItemThrows}

\* A result item whose primary provider element is there with nothing but
\* white space in it and whose data-tariff-id attribute is empty; the
\* data-field elements and data-id are there as well.
ItemBlank ==
    [attrs |-> ("data-tariff-id" :> "" @@ "data-id" :> "d5"),
     els |-> (".egon-provider-name" :> " " @@ "[data-field=provider]" :> "Yello"
              @@ ".egon-tariff-name" :> "Basis" @@ "[data-field=tariff]" :> "Komfort"),
     throws |-> FALSE]

\* A result item of the data-id revision whose data-id is the value another
\* item carries as data-tariff-id, with a commission of its own.
ItemAlias ==
    [attrs |-> ("data-id" :> "t1"),
     els |-> ("[data-field=provider]" :> "EnBW" @@ "[data-field=tariff]" :> "Komfort"
              @@ "[data-field=price_month]" :> "31,50€"
              @@ ".egon-provision-btn" :> "Provision" @@ ".egon-provision-value" :> "80,00 €"),
     throws |-> FALSE]

\* A long result list.
Crowd == [j \in 1..CrowdSize |-> ItemFull]

\* Result lists of markup that the lists of ItemKinds do not cover.
MarkupRenderings ==
    {Crowd, <<ItemBlank>>, <<ItemFull, ItemAlias>>, <<ItemAlias, ItemFull>>}

\* The result lists of at most n items.
Batches(n) == UNION {[1..k -> ItemKinds] : k \in 1..n}

\* String.prototype.trim on the texts the items carry.
Trim(s) ==
    CASE s = " Vattenfall " -> "Vattenfall"
      [] s = " " -> ""
      [] OTHER -> s

\* item.querySelector(sel)?.textContent?.trim()
Text(item, sel) == IF sel \in DOMAIN item.els THEN Trim(item.els[sel]) ELSE Undefined

\* item.getAttribute(name)
GetAttribute(item, name) ==
    IF name \in DOMAIN item.attrs THEN item.attrs[name] ELSE None

\* JavaScript's a ?? b: only undefined and null give way to b.
JsNullish(a, b) == IF a \notin {Undefined, None} THEN a ELSE b

\* JavaScript's a || b.
JsOr(a, b) == IF a \notin {Undefined, None, ""} THEN a ELSE b

\* `tariff_${index}`
SyntheticId(index) == "tariff_" \o ToString(index)

\* The object literal of lines 200-216, for the item at the 0-based index.
ParseItem(item, index) ==
    [anbieter |-> JsOr(Text(item, ".egon-provider-name"),
                       JsOr(Text(item, "[data-field=provider]"), "")),
     tarif |-> JsOr(Text(item, ".egon-tariff-name"),
                    JsOr(Text(item, "[data-field=tariff]"), "")),
     preis_monat |-> JsOr(Text(item, ".egon-price-month"),
                          JsOr(Text(item, "[data-field=price_month]"), None)),
     preis_jahr |-> JsOr(Text(item, ".egon-price-year"),
                         JsOr(Text(item, "[data-field=price_year]"), None)),
     grundpreis |-> JsOr(Text(item, ".egon-base-price"),
                         JsOr(Text(item, "[data-field=base_price]"), None)),
     arbeitspreis |-> JsOr(Text(item, ".egon-work-price"),
                           JsOr(Text(item, "[data-field=work_price]"), None)),
     tariff_id |-> JsOr(GetAttribute(item, "data-tariff-id"),
                        JsOr(GetAttribute(item, "data-id"), SyntheticId(index))),
     provision |-> Undefined]

\* A parse whose try encloses the whole loop: a throw loses what was pushed.
ParseIntoOrLose(results, item, index) ==
    IF item.throws THEN <<>> ELSE Append(results, ParseItem(item, index))

\* One turn of items.forEach: push the parsed item, or catch what it throws.
ParseInto(results, item, index) ==
    IF item.throws THEN results ELSE Append(results, ParseItem(item, index))

RECURSIVE ExtractFirst(_, _)
\* items.forEach over the first n items.
ExtractFirst(items, n) ==
    IF n = 0 THEN <<>>
    ELSE ParseInto(ExtractFirst(items, n - 1), items[n], n - 1)

\* The function page.evaluate runs, lines 194-224.
ExtractTariffs(items) == ExtractFirst(items, Len(items))

\* TariffDetail(**t): a key the dict lacks takes the model's default.
TariffDetail(t) ==
    [anbieter |-> t.anbieter, tarif |-> t.tarif, preis_monat |-> t.preis_monat,
     preis_jahr |-> t.preis_jahr, grundpreis |-> t.grundpreis,
     arbeitspreis |-> t.arbeitspreis,
     provision |-> IF t.provision = Undefined THEN None ELSE t.provision,
     provision_details |-> None, tariff_id |-> t.tariff_id]

\* document.querySelector('[data-tariff-id="id"] sel'): the first item that
\* carries the attribute value id and holds an element sel, 0 when none does.
QueryScoped(items, id, sel) ==
    LET hits == {j \in 1..Len(items) :
                    /\ GetAttribute(items[j], "data-tariff-id") = id
                    /\ sel \in DOMAIN items[j].els}
    IN IF hits = {} THEN 0 ELSE CHOOSE j \in hits : \A k \in hits : j <= k

-----------------------------------------------------------------------------
(* The handler, continued: results, extraction, drill-down, return *)

\* A wait for the first result item without a timeout: when the portal
\* renders none, the handler stays in the wait.
WaitForResultsUnbounded(r, w) ==
    /\ pc[r] = "wait_results"
    /\ \E items \in w.results :
       \E a \in IF items = <<>>
                THEN Attempts(w, <<"wait:results">>)
                ELSE Attempts(w, <<"wait:results", "wait:networkidle", "sleep:2">>) :
        /\ Issue(r, a.calls)
        /\ IF ~a.ok
           THEN /\ Throw(r, BrowserError, "results_except")
                /\ UNCHANGED page
           ELSE IF items = <<>>
           THEN /\ Goto(r, "waiting_for_results")
                /\ UNCHANGED page
           ELSE /\ page' = [page EXCEPT ![r].items = items]
                /\ Goto(r, "extract")
    /\ UNCHANGED <<Globals, request, playwright, browser, tariffs_data, tariff_idx,
                   response, error_screenshot>>

\* Lines 176-182, the body of the inner try: wait for the first result item
\* (timeout=15000), for the network to idle, and two seconds more.  What is
\* raised here is caught by the except clause of line 184.
WaitForResults(r, w) ==
    /\ pc[r] = "wait_results"
    /\ \E items \in w.results :
       \E a \in IF items = <<>>
                THEN Attempts(w, <<"wait:results">>)
                ELSE Attempts(w, <<"wait:results", "wait:networkidle", "sleep:2">>) :
        /\ Issue(r, a.calls)
        /\ IF ~a.ok
           THEN /\ Throw(r, BrowserError, "results_except")
                /\ UNCHANGED page
           ELSE IF items = <<>>
           THEN /\ Throw(r, TimeoutMsg(ResultsTimeout), "results_except")
                /\ UNCHANGED page
           ELSE /\ page' = [page EXCEPT ![r].items = items]
                /\ Goto(r, "extract")
    /\ UNCHANGED <<Globals, request, playwright, browser, tariffs_data, tariff_idx,
                   response, error_screenshot>>

\* What page.screenshot(path='/tmp/error_screenshot.png') leaves in the file.
Screenshot(r, file) == r

\* Lines 184-188, the except clause of the inner try: write the screenshot
\* to the fixed path and raise "No tariff results found"; when the screenshot
\* raises, its exception is the one that leaves the clause.
ResultsExcept(r, w) ==
    /\ pc[r] = "results_except"
    /\ \E a \in Attempts(w, <<"screenshot">>) :
        /\ Issue(r, a.calls)
        /\ IF a.ok
           THEN /\ error_screenshot' = Screenshot(r, error_screenshot)
                /\ Raise(r, NoResultsMsg(exc[r]))
           ELSE /\ Raise(r, BrowserError)
                /\ UNCHANGED error_screenshot
    /\ UNCHANGED <<Globals, request, playwright, browser, page, tariffs_data,
                   tariff_idx, response>>

\* A condition that leaves the request's flag out.
WantsProvisionsRegardless(req, data) == Len(data) > 0

\* if request.include_provisions and len(tariffs_data) > 0
WantsProvisions(req, data) == req.include_provisions /\ Len(data) > 0

\* Lines 193-230: evaluate the extraction and decide on the drill-down.
Extract(r, w) ==
    /\ pc[r] = "extract"
    /\ \E a \in Attempts(w, <<"evaluate:items">>) :
        /\ Issue(r, a.calls)
        /\ IF a.ok
           THEN LET data == ExtractTariffs(page[r].items) IN
                /\ tariffs_data' = [tariffs_data EXCEPT ![r] = data]
                /\ Goto(r, IF WantsProvisions(request[r], data) THEN "drill" ELSE "close")
           ELSE /\ Raise(r, BrowserError)
                /\ UNCHANGED tariffs_data
    /\ UNCHANGED <<Globals, request, playwright, browser, page, tariff_idx,
                   response, error_screenshot>>

\* The value the drill-down of one tariff leaves in tariff['provision']: None
\* when a call raised, what the page shows when the button was found, and the
\* key as it was when there is no button.
ProvisionAfter(tariff, items, ok) ==
    LET btn == QueryScoped(items, tariff.tariff_id, ".egon-provision-btn")
        val == QueryScoped(items, tariff.tariff_id, ".egon-provision-value")
    IN IF ~ok THEN None
       ELSE IF btn = 0 THEN tariff.provision
       ELSE IF val = 0 THEN None
       ELSE Trim(items[val].els[".egon-provision-value"])

\* The calls of one turn of the drill-down loop, lines 236-249.
DrillCalls(tariff, items) ==
    IF QueryScoped(items, tariff.tariff_id, ".egon-provision-btn") = 0
    THEN <<"query:provision_btn">>
    ELSE <<"query:provision_btn", "click:provision_btn", "sleep:0.5",
           "evaluate:provision_value">>

\* A loop without the except clause: an exception of a turn leaves the loop.
AfterDrillUncaught(i, n, ok) ==
    IF ~ok THEN "aexit" ELSE IF i < n THEN "drill" ELSE "close"

\* Where the loop stands after the turn for the i-th of n tariffs; the except
\* clause of line 254 keeps an exception of the turn inside the loop.
AfterDrill(i, n, ok) == IF i < n THEN "drill" ELSE "close"

\* Lines 233-256: one turn of `for tariff in tariffs_data`.
DrillDown(r, w) ==
    /\ pc[r] = "drill"
    /\ LET i == tariff_idx[r]
           tariff == tariffs_data[r][i]
       IN \E a \in Attempts(w, DrillCalls(tariff, page[r].items)) :
            /\ Issue(r, a.calls)
            /\ tariffs_data' = [tariffs_data EXCEPT
                   ![r][i].provision = ProvisionAfter(tariff, page[r].items, a.ok)]
            /\ tariff_idx' = [tariff_idx EXCEPT ![r] = i + 1]
            /\ raised' = [raised EXCEPT ![r] =
                   IF a.ok THEN @ ELSE Append(@, Raised(r, BrowserError))]
            /\ pc' = [pc EXCEPT ![r] = AfterDrill(i, Len(tariffs_data[r]), a.ok)]
            /\ UNCHANGED exc
    /\ UNCHANGED <<Globals, request, playwright, browser, page, response,
                   error_screenshot>>

\* Line 258: await browser.close()
CloseBrowser(r, w) ==
    /\ pc[r] = "close"
    /\ \E a \in Attempts(w, <<"browser.close">>) :
        /\ Issue(r, a.calls)
        /\ IF a.ok
           THEN /\ browser' = [browser EXCEPT ![r] = "closed"]
                /\ Goto(r, "build")
           ELSE /\ Raise(r, BrowserError)
                /\ UNCHANGED browser
    /\ UNCHANGED <<Globals, request, playwright, page, tariffs_data, tariff_idx,
                   response, error_screenshot>>

\* tariffs = [TariffDetail(**t) for t in tariffs_data]
Tariffs(data) == [j \in 1..Len(data) |-> TariffDetail(data[j])]

\* The payload of lines 263-267.
SuccessResponse(data) == ScrapeResponse(TRUE, Tariffs(data), Len(Tariffs(data)), None)

\* A failure payload built without its error argument.
FailureResponseWithoutError(e) == ScrapeResponse(FALSE, <<>>, 0, None)

\* A handler that answers an exception with an empty success.
EmptySuccessResponse(e) == ScrapeResponse(TRUE, <<>>, 0, None)

\* The payload of lines 271-276.
FailureResponse(e) == ScrapeResponse(FALSE, <<>>, 0, e)

\* Lines 261-267: build the payload; the return leaves the async with block.
BuildResponse(r) ==
    /\ pc[r] = "build"
    /\ response' = [response EXCEPT ![r] = SuccessResponse(tariffs_data[r])]
    /\ pc' = [pc EXCEPT ![r] = "aexit"]
    /\ UNCHANGED <<Globals, request, playwright, browser, page, exc, raised, log,
                   tariffs_data, tariff_idx, error_screenshot>>

\* A driver whose stop leaves its browser running.
BrowserLeftRunning(b) == b

\* What stopping the driver does to the browser it launched.
BrowserAfterStop(b) == IF b = "open" THEN "closed" ELSE b

\* The exit of `async with async_playwright() as p`, taken by the return and
\* by every exception alike: the driver stops, and with it its browser.
ExitPlaywright(r) ==
    /\ pc[r] = "aexit"
    /\ Issue(r, <<"playwright.stop">>)
    /\ playwright' = [playwright EXCEPT ![r] = "stopped"]
    /\ browser' = [browser EXCEPT ![r] = BrowserAfterStop(@)]
    /\ pc' = [pc EXCEPT ![r] = IF exc[r] = None THEN "returned" ELSE "except"]
    /\ UNCHANGED <<Globals, request, page, exc, raised, tariffs_data, tariff_idx,
                   response, error_screenshot>>

\* Lines 269-276: except Exception as e: return ScrapeResponse(success=False, ...)
HandleException(r) ==
    /\ pc[r] = "except"
    /\ response' = [response EXCEPT ![r] = FailureResponse(exc[r])]
    /\ exc' = [exc EXCEPT ![r] = None]
    /\ pc' = [pc EXCEPT ![r] = "returned"]
    /\ UNCHANGED <<Globals, request, playwright, browser, page, raised, log,
                   tariffs_data, tariff_idx, error_screenshot>>

-----------------------------------------------------------------------------
(* Specifications *)

\* Every call may raise, and the portal may render anything of the sets above.
AnyWorld ==
    [faults |-> TRUE, logins |-> BOOLEAN, forms |-> BOOLEAN,
     cities |-> CityRenderings, streets |-> StreetRenderings,
     netze |-> NetzRenderings, results |-> {<<>>} \cup Batches(MaxItems)]

\* No call raises; the portal serves the form and either one item or none.
CalmWorld ==
    [faults |-> FALSE, logins |-> {TRUE}, forms |-> {TRUE},
     cities |-> {<<Placeholder, "Berlin", "Bernau">>},
     streets |-> {<<Placeholder, "Ackerstr", "Hauptstr">>},
     netze |-> {"Stromnetz Berlin"}, results |-> {<<>>, <<ItemFull>>}]

\* No call raises; the portal serves the form and a result list of
\* MarkupRenderings, or none.
MarkupWorld ==
    [faults |-> FALSE, logins |-> {TRUE}, forms |-> {TRUE},
     cities |-> {<<Placeholder, "Berlin", "Bernau">>},
     streets |-> {<<Placeholder, "Ackerstr", "Hauptstr">>},
     netze |-> {"Stromnetz Berlin"}, results |-> {<<>>} \cup MarkupRenderings]

\* n requests arrive, none of them started.
InitOf(n, requests) ==
    /\ PORTAL_USERNAME \in EnvValues
    /\ PORTAL_PASSWORD \in EnvValues
    /\ request \in [1..n -> requests]
    /\ pc = [r \in 1..n |-> "start"]
    /\ playwright = [r \in 1..n |-> None]
    /\ browser = [r \in 1..n |-> None]
    /\ page = [r \in 1..n |-> BlankPage]
    /\ exc = [r \in 1..n |-> None]
    /\ raised = [r \in 1..n |-> <<>>]
    /\ log = [r \in 1..n |-> <<>>]
    /\ tariffs_data = [r \in 1..n |-> <<>>]
    /\ tariff_idx = [r \in 1..n |-> 1]
    /\ response = [r \in 1..n |-> NoResponse]
    /\ error_screenshot = None

\* One statement of run r in the world w.
Step(r, w) ==
    \/ CheckCredentials(r)
    \/ EnterPlaywright(r, w)
    \/ LaunchBrowser(r, w)
    \/ NewPage(r, w)
    \/ Login(r, w)
    \/ Navigate(r, w)
    \/ EnterZip(r, w)
    \/ WaitForCity(r, w)
    \/ SelectCity(r, w)
    \/ WaitForStreet(r, w)
    \/ SelectStreet(r, w)
    \/ EnterHouseNumber(r, w)
    \/ WaitForNetz(r, w)
    \/ EnterConsumption(r, w)
    \/ Submit(r, w)
    \/ WaitForResults(r, w)
    \/ ResultsExcept(r, w)
    \/ Extract(r, w)
    \/ DrillDown(r, w)
    \/ CloseBrowser(r, w)
    \/ BuildResponse(r)
    \/ ExitPlaywright(r)
    \/ HandleException(r)

Init == InitOf(1, ScrapeRequest)

Next == Step(1, AnyWorld)

\* One request, in any world.
Spec == Init /\ [][Next]_vars

\* One request, in any world, on an event loop that keeps running the handler:
\* a statement that can be executed is executed.
SpecFair == Spec /\ WF_vars(Next)

InitConcurrent == InitOf(NumRequests, {PlainRequest})

NextConcurrent == \E r \in 1..NumRequests : Step(r, CalmWorld)

\* NumRequests requests interleaved, as the event loop runs them: each await
\* is a point where another request's statements may run.
SpecConcurrent == InitConcurrent /\ [][NextConcurrent]_vars

InitMarkup == InitOf(1, ScrapeRequest)

NextMarkup == Step(1, MarkupWorld)

\* One request, in a world whose result lists are those of MarkupRenderings.
SpecMarkup == InitMarkup /\ [][NextMarkup]_vars

-----------------------------------------------------------------------------
(* Vocabulary of the properties *)

\* How often run r has issued the call.
Issued(r, call) == Cardinality({j \in 1..Len(log[r]) : log[r][j] = call})

Returned(r) == pc[r] = "returned"

\* The exceptions of run r that no except clause of a loop turn absorbed.
Fatal(r) == SelectSeq(raised[r], LAMBDA e : e.at # "drill")

\* Run r raised an exception at the statement `at` with the message msg.
RaisedAt(r, at, msg) ==
    \E j \in 1..Len(raised[r]) : raised[r][j].at = at /\ raised[r][j].msg = msg

IsPayload(resp) == resp.kind = "ScrapeResponse"

\* The username or the password is unset or empty.
ACredentialIsMissing ==
    PORTAL_USERNAME \in {None, ""} \/ PORTAL_PASSWORD \in {None, ""}

-----------------------------------------------------------------------------
(* Properties *)

\* C1: when scrape_tariffs has returned, whatever statement raised, nothing
\* of the session is left open: the browser, if one was launched, is closed
\* and the driver, if it was started, is stopped; the driver was stopped
\* exactly once if it was started and never otherwise, and browser.close()
\* was called at most once, and only on a browser that had been launched.
C1_SessionReleasedOnce ==
    \A r \in DOMAIN pc :
        Returned(r) =>
            /\ browser[r] # "open"
            /\ playwright[r] # "started"
            /\ Issued(r, "playwright.stop") = IF playwright[r] = None THEN 0 ELSE 1
            /\ Issued(r, "browser.close") <= 1
            /\ Issued(r, "browser.close") = 1 => Issued(r, "chromium.launch") = 1
            /\ Issued(r, "chromium.launch") <= 1

\* C1 witness: a run that failed in the middle of the cascade has returned
\* with its browser closed by the one stop of the driver.
C1_Witness ==
    \E r \in DOMAIN pc :
        /\ Returned(r)
        /\ RaisedAt(r, "wait_street", TimeoutMsg(FieldTimeout))
        /\ browser[r] = "closed"
        /\ Issued(r, "browser.close") = 0
        /\ Issued(r, "playwright.stop") = 1

\* C2: while a credential is missing (unset or empty), a run issues no driver
\* or browser call, opens nothing, writes no screenshot, and ends with the
\* HTTP 500 error that names the missing configuration.
C2_NoActionWithoutCredentials ==
    \A r \in DOMAIN pc :
        ACredentialIsMissing =>
            /\ log[r] = <<>>
            /\ playwright[r] = None
            /\ browser[r] = None
            /\ error_screenshot = None
            /\ pc[r] \in {"start", "returned"}
            /\ Returned(r) => response[r] = HTTPException(500, CredentialsDetail)

\* C2 witness: the password alone is missing and the run has ended.
C2_Witness ==
    \E r \in DOMAIN pc :
        /\ PORTAL_USERNAME = "makler"
        /\ PORTAL_PASSWORD = None
        /\ Returned(r)
        /\ response[r].kind = "HTTPException"

\* C3 as claimed: every failure other than an absorbed one, the configuration
\* error included, comes back as a payload with success = false and an error.
C3_EveryFailureIsAPayload ==
    \A r \in DOMAIN pc :
        (Returned(r) /\ Fatal(r) # <<>>) =>
            /\ IsPayload(response[r])
            /\ response[r].success = FALSE
            /\ response[r].error # None

\* C3 as amended: a failure raised inside the try comes back as the payload
\* success = false, tariffs = [], count = 0, error = the message of the
\* exception that left the try; the configuration error comes back as an
\* HTTP 500 error and no payload; a run that returns success = true raised
\* nothing but absorbed drill-down exceptions.
C3_FailuresAbortTheRequest ==
    \A r \in DOMAIN pc :
        Returned(r) =>
            LET fatal == Fatal(r) IN
            IF fatal = <<>>
            THEN IsPayload(response[r]) /\ response[r].success = TRUE
            ELSE IF fatal[1].at = "start"
            THEN response[r] = HTTPException(500, CredentialsDetail)
            ELSE /\ IsPayload(response[r])
                 /\ response[r].success = FALSE
                 /\ response[r].tariffs = <<>>
                 /\ response[r].count = 0
                 /\ response[r].error = fatal[Len(fatal)].msg
                 /\ response[r].error # None

\* C3 witness: a failed login has come back as a failure payload.
C3_Witness ==
    \E r \in DOMAIN pc :
        /\ Returned(r)
        /\ RaisedAt(r, "login", LoginFailedMsg)
        /\ IsPayload(response[r])
        /\ response[r].success = FALSE
        /\ response[r].error = LoginFailedMsg

\* C4 as claimed: a city field that never receives more than its placeholder
\* ends the request with a failure that names the city field and is not the
\* generic timeout text that any stalled wait produces.
C4_CityStallNamesTheField ==
    \A r \in DOMAIN pc :
        (Returned(r) /\ RaisedAt(r, "wait_city", TimeoutMsg(FieldTimeout))) =>
            /\ IsPayload(response[r])
            /\ response[r].success = FALSE
            /\ response[r].error # TimeoutMsg(FieldTimeout)

Range(seq) == {seq[j] : j \in 1..Len(seq)}

\* The request names a city that is not among the options of the city field.
CityMismatch(r) ==
    /\ request[r].ort \notin {None, ""}
    /\ page[r].cityOptions # <<>>
    /\ request[r].ort \notin Range(page[r].cityOptions)

C6_NoResultsTimeoutReported ==
    \A r \in DOMAIN pc :
        (Returned(r) /\ RaisedAt(r, "wait_results", TimeoutMsg(ResultsTimeout))) =>
            /\ IsPayload(response[r])
            /\ response[r].success = FALSE
            /\ response[r].tariffs = <<>>
            /\ response[r].error = NoResultsMsg(TimeoutMsg(ResultsTimeout))
            /\ error_screenshot = r
            /\ Issued(r, "click:submit") = 1

\* The extraction of run r has returned its list.
ExtractionDone(r) ==
    /\ Issued(r, "evaluate:items") = 1
    /\ pc[r] # "extract"
    /\ \A j \in 1..Len(raised[r]) : raised[r][j].at # "extract"

WellFormed(item) == item \in {ItemFull, ItemFallback}

\* Exactly one of the items is malformed, and at least one is well-formed.
OneMalformed(items) ==
    /\ Cardinality({j \in 1..Len(items) : ~WellFormed(items[j])}) = 1
    /\ Cardinality({j \in 1..Len(items) : WellFormed(items[j])}) >= 1

\* A record without its commission.
Core(t) == [t EXCEPT !.provision = Undefined]

\* The record the extraction is to give for a well-formed item.
RecordOf(item) ==
    IF item = ItemFull
    THEN [anbieter |-> "Vattenfall", tarif |-> "Basis", preis_monat |-> "29,90€",
          preis_jahr |-> "1.234,56 €", grundpreis |-> None, arbeitspreis |-> None,
          tariff_id |-> "t1", provision |-> Undefined]
    ELSE [anbieter |-> "EnBW", tarif |-> "Komfort", preis_monat |-> "31,50€",
          preis_jahr |-> None, grundpreis |-> None, arbeitspreis |-> None,
          tariff_id |-> "d2", provision |-> Undefined]

\* The record the extraction gives for an item with no element and no
\* attribute, rendered at the 0-based index.
BareRecord(index) ==
    [anbieter |-> "", tarif |-> "", preis_monat |-> None, preis_jahr |-> None,
     grundpreis |-> None, arbeitspreis |-> None,
     tariff_id |-> "tariff_" \o ToString(index), provision |-> Undefined]

\* The position among the items of the j-th item whose parse does not throw.
Position(items, j) ==
    CHOOSE i \in 1..Len(items) :
        /\ ~items[i].throws
        /\ Cardinality({k \in 1..i : ~items[k].throws}) = j

\* C7 as claimed: of a batch with one malformed item, the extraction returns
\* the records of the well-formed items and nothing else.
C7_MalformedItemOmitted ==
    \A r \in DOMAIN pc :
        (ExtractionDone(r) /\ OneMalformed(page[r].items)) =>
            LET good == SelectSeq(page[r].items, WellFormed) IN
            /\ Len(tariffs_data[r]) = Len(good)
            /\ \A j \in 1..Len(good) : Core(tariffs_data[r][j]) = RecordOf(good[j])

\* C7 as amended: the extraction returns one record for every item whose parse
\* does not throw, in the order rendered.  An item whose parse throws is
\* omitted; an item that only lacks its elements and attributes is not: it
\* comes back with empty provider and tariff names, absent prices and the
\* synthetic id of its position.  Neither kind stops the other items from
\* being extracted or makes the request fail.
C7_ThrowingItemOmittedBareItemKept ==
    \A r \in DOMAIN pc :
        ExtractionDone(r) =>
            LET items == page[r].items
                kept == SelectSeq(items, LAMBDA it : ~it.throws)
            IN /\ Len(tariffs_data[r]) = Len(kept)
               /\ \A j \in 1..Len(kept) :
                    Core(tariffs_data[r][j]) =
                        IF WellFormed(kept[j]) THEN RecordOf(kept[j])
                        ELSE BareRecord(Position(items, j) - 1)
               /\ (Returned(r) /\ Fatal(r) = <<>>) =>
                    /\ IsPayload(response[r])
                    /\ response[r].success = TRUE
                    /\ response[r].count = Len(kept)

\* C7 witness: a throwing item between a well-formed and a bare one; the
\* request succeeded with two records, the bare one under the id tariff_2.
C7_Witness ==
    \E r \in DOMAIN pc :
        /\ page[r].items = <<ItemFull, ItemThrows, ItemBare>>
        /\ Returned(r)
        /\ IsPayload(response[r])
        /\ response[r].success = TRUE
        /\ response[r].count = 2
        /\ response[r].tariffs[1].anbieter = "Vattenfall"
        /\ response[r].tariffs[2].anbieter = ""
        /\ response[r].tariffs[2].tariff_id = "tariff_2"

\* The drill-down turn for the j-th tariff of run r raised.
DrillFailed(r, j) ==
    \E k \in 1..Len(raised[r]) : raised[r][k].at = "drill" /\ raised[r][k].idx = j

\* The commission the page shows for a record: the one of the item with the
\* data-tariff-id t1, and none for an id no data-tariff-id attribute carries.
ShownProvision(t) == IF t.tariff_id = "t1" THEN "120,00 €" ELSE Undefined

\* C8: a drill-down turn that raises leaves its tariff with every other field
\* as extracted and the commission None; the loop goes on to the remaining
\* tariffs; the commissions of the turns that did not raise stay what the
\* page showed; and a request in which nothing else raised returns
\* success = true with all the records.
C8_DrillDownFailureAbsorbed ==
    \A r \in DOMAIN pc :
        ExtractionDone(r) =>
            LET data == tariffs_data[r]
                extracted == ExtractTariffs(page[r].items)
            IN /\ Len(data) = Len(extracted)
               /\ \A j \in 1..Len(data) :
                    /\ Core(data[j]) = extracted[j]
                    /\ data[j].provision =
                         IF DrillFailed(r, j) THEN None
                         ELSE IF j < tariff_idx[r] THEN ShownProvision(data[j])
                         ELSE Undefined
                    /\ DrillFailed(r, j) => j < tariff_idx[r]
               /\ Fatal(r) = <<>> =>
                    /\ exc[r] = None
                    /\ pc[r] \in {"drill", "close", "build", "aexit", "returned"}
                    /\ pc[r] = "drill" <=>
                         (WantsProvisions(request[r], data) /\ tariff_idx[r] <= Len(data))
                    /\ (pc[r] # "drill" /\ WantsProvisions(request[r], data))
                         => tariff_idx[r] = Len(data) + 1
                    /\ Returned(r) =>
                         /\ IsPayload(response[r])
                         /\ response[r].success = TRUE
                         /\ response[r].count = Len(data)
                         /\ \A j \in 1..Len(data) :
                              /\ response[r].tariffs[j].anbieter = data[j].anbieter
                              /\ response[r].tariffs[j].tariff_id = data[j].tariff_id
                              /\ response[r].tariffs[j].provision =
                                   IF DrillFailed(r, j) \/ data[j].provision = Undefined
                                   THEN None ELSE data[j].provision

\* C8 witness: of three tariffs the first was read, the turn of the second
\* raised, the third was read after it, and the request succeeded.
C8_Witness ==
    \E r \in DOMAIN pc :
        /\ Returned(r)
        /\ IsPayload(response[r])
        /\ response[r].success = TRUE
        /\ response[r].count = 3
        /\ ~DrillFailed(r, 1) /\ DrillFailed(r, 2) /\ ~DrillFailed(r, 3)
        /\ response[r].tariffs[1].provision = "120,00 €"
        /\ response[r].tariffs[2].provision = None
        /\ response[r].tariffs[2].anbieter = "Vattenfall"
        /\ response[r].tariffs[3].provision = "120,00 €"

\* C9 as claimed: what one request has written no other request overwrites;
\* the screenshot a request wrote on its results timeout is still its own.
C9_NoSharedMutableState ==
    \A r \in DOMAIN pc :
        Issued(r, "screenshot") = 1 => error_screenshot = r

\* The calls of the cascade and the submission, in the order of the code.
CascadeCalls ==
    <<"type:zip", "wait:city", "select:city", "wait:street", "select:street",
      "fill:street_number", "wait:netz", "fill:consum", "click:submit">>

\* The cascade calls run r has issued, in the order it issued them.
CascadeLog(r) == SelectSeq(log[r], LAMBDA c : c \in Range(CascadeCalls))

IsPrefix(a, b) == Len(a) <= Len(b) /\ \A j \in 1..Len(a) : a[j] = b[j]

\* The wait of the cascade that statement `at` issues.
WaitCall(at) ==
    CASE at = "wait_city" -> "wait:city"
      [] at = "wait_street" -> "wait:street"
      [] at = "wait_netz" -> "wait:netz"

\* C10: the cascade calls are issued in the order zip, city wait, city
\* selection, street wait, street selection, house number, grid operator
\* wait, consumption, submit, each at most once; the submit is clicked only
\* on a form whose zip, city, street, house number, grid operator and
\* consumption are set; and after a cascade wait has timed out the wait is
\* the last cascade call issued, the submit is never clicked, and no tariff
\* is extracted or returned.
C10_CascadeOrderedAndGated ==
    \A r \in DOMAIN pc :
        /\ IsPrefix(CascadeLog(r), CascadeCalls)
        /\ Issued(r, "click:submit") >= 1 =>
            /\ page[r].zip = request[r].plz
            /\ page[r].city \in Range(page[r].cityOptions) \ {Placeholder}
            /\ page[r].street \in Range(page[r].streetOptions) \ {Placeholder}
            /\ page[r].street_number \in {"1", "7"}
            /\ page[r].netz_id \notin {"", "Kein Netzbetreiber"}
            /\ page[r].consum = "3500"
        /\ \A k \in 1..Len(raised[r]) :
            (/\ raised[r][k].at \in {"wait_city", "wait_street", "wait_netz"}
             /\ raised[r][k].msg = TimeoutMsg(FieldTimeout)) =>
                /\ CascadeLog(r) # <<>>
                /\ CascadeLog(r)[Len(CascadeLog(r))] = WaitCall(raised[r][k].at)
                /\ Issued(r, "click:submit") = 0
                /\ tariffs_data[r] = <<>>
                /\ page[r].items = <<>>
                /\ Returned(r) =>
                    /\ IsPayload(response[r])
                    /\ response[r].success = FALSE
                    /\ response[r].tariffs = <<>>

\* C10 witness: the grid operator was never resolved; the request returned
\* after the street had been selected, without a submit.
C10_Witness ==
    \E r \in DOMAIN pc :
        /\ Returned(r)
        /\ RaisedAt(r, "wait_netz", TimeoutMsg(FieldTimeout))
        /\ page[r].street = "Hauptstr"
        /\ Issued(r, "click:submit") = 0
        /\ IsPayload(response[r])
        /\ response[r].success = FALSE

-----------------------------------------------------------------------------
(* The lifecycle of a request *)

LifecycleOrder ==
    <<"Idle", "SessionOpen", "FormReady", "Submitted", "ResultsReady", "Closed">>

\* The lifecycle state of a run that stands at the statement p: Errored once
\* an exception has left a statement of the handler; otherwise Idle until the
\* browser context and its page are open, SessionOpen until the form's root
\* element has appeared, FormReady until the submit button has been clicked,
\* Submitted until a result item has been detected, ResultsReady until the
\* browser has been closed, and Closed from then on.
LifecycleAt(p, errored) ==
    IF errored THEN "Errored"
    ELSE CASE p \in {"start", "enter", "launch", "new_page"} -> "Idle"
           [] p \in {"login", "navigate"} -> "SessionOpen"
           [] p \in {"zip", "wait_city", "select_city", "wait_street",
                     "select_street", "street_number", "wait_netz", "consum",
                     "submit"} -> "FormReady"
           [] p = "wait_results" -> "Submitted"
           [] p \in {"extract", "drill", "close"} -> "ResultsReady"
           [] p \in {"build", "aexit", "returned"} -> "Closed"

Lifecycle(r) == LifecycleAt(pc[r], Fatal(r) # <<>>)

\* The lifecycle states a run may enter from the state s.
LifecycleSuccessors(s) ==
    {LifecycleOrder[j + 1] : j \in {k \in 1..(Len(LifecycleOrder) - 1) : LifecycleOrder[k] = s}}
    \cup (IF s \in {"Closed", "Errored"} THEN {} ELSE {"Errored"})

\* A step of the handler that takes run r into Errored.
ErrorStep(r) == Next /\ Lifecycle(r)' = "Errored"

\* The lifecycle states run r has left behind, read off the calls it issued.
Visited(r) ==
    {"Idle"}
    \cup (IF Issued(r, "goto:login") >= 1 THEN {"SessionOpen"} ELSE {})
    \cup (IF Issued(r, "click:zip") >= 1 THEN {"FormReady"} ELSE {})
    \cup (IF Issued(r, "wait:results") >= 1 THEN {"Submitted"} ELSE {})
    \cup (IF Issued(r, "evaluate:items") >= 1 THEN {"ResultsReady"} ELSE {})

\* C11: a run changes its lifecycle state only to the next state of the order
\* Idle, SessionOpen, FormReady, Submitted, ResultsReady, Closed or, from a
\* state other than Closed and Errored, to Errored, so no state is skipped and
\* none is entered twice; in every state other than Closed and Errored a step
\* into Errored is possible (from Idle with the credentials set, once the
\* credentials have been checked; from ResultsReady at the extraction and at
\* the closing of the browser, not in a turn of the drill-down loop, which
\* absorbs what it raises); and a run that has returned a payload has
\* success = true exactly when it stands in Closed, which it entered from
\* ResultsReady after every state before it.
C11_LifecycleInOrder ==
    /\ [][\A r \in DOMAIN pc :
            Lifecycle(r)' # Lifecycle(r) => Lifecycle(r)' \in LifecycleSuccessors(Lifecycle(r))]_vars
    /\ [](\A r \in DOMAIN pc :
            /\ Lifecycle(r) \notin {"Closed", "Errored"} =>
                 \/ ENABLED ErrorStep(r)
                 \/ pc[r] = "start" /\ ~ACredentialIsMissing
                 \/ pc[r] = "drill"
            /\ (Returned(r) /\ IsPayload(response[r])) =>
                 (response[r].success = TRUE <=> Lifecycle(r) = "Closed")
            /\ Returned(r) => Lifecycle(r) \in {"Closed", "Errored"}
            /\ Lifecycle(r) = "Closed" =>
                 Visited(r) = {"Idle", "SessionOpen", "FormReady", "Submitted", "ResultsReady"}
            /\ (Returned(r) /\ Lifecycle(r) = "Closed") =>
                 IsPayload(response[r]) /\ response[r].success = TRUE)

\* C11 witness: a run has returned in Closed with success = true, after the
\* drill-down of its tariffs.
C11_Witness ==
    \E r \in DOMAIN pc :
        /\ Returned(r)
        /\ Lifecycle(r) = "Closed"
        /\ IsPayload(response[r])
        /\ response[r].success = TRUE
        /\ Issued(r, "click:provision_btn") >= 1
        /\ Visited(r) = {"Idle", "SessionOpen", "FormReady", "Submitted", "ResultsReady"}

-----------------------------------------------------------------------------
(* Defaults of the cascade *)

\* The request leaves the value unspecified: absent or empty.
Unspecified(v) == v \in {None, ""}

\* The first option of a select that is not the placeholder.
FirstReal(options) ==
    options[CHOOSE j \in 1..Len(options) :
                /\ options[j] # Placeholder
                /\ \A k \in 1..(j - 1) : options[k] = Placeholder]

\* What the select is to hold for the wanted value: the option whose label is
\* the wanted value, or the first real option when none is wanted.
Chosen(options, wanted) ==
    IF Unspecified(wanted) THEN FirstReal(options) ELSE wanted

\* C12: once the city has been selected it is, for a request without a city,
\* the first option of the city field that is not the placeholder, and for a
\* request with a city the option whose label is that city; likewise the
\* street; the placeholder is never what is selected; and once the house
\* number has been filled in it is the request's, or "1" when the request has
\* none.
C12_DefaultsAndLabels ==
    \A r \in DOMAIN pc :
        /\ page[r].city # None =>
            /\ page[r].city = Chosen(page[r].cityOptions, request[r].ort)
            /\ page[r].city \in Range(page[r].cityOptions) \ {Placeholder}
        /\ page[r].street # None =>
            /\ page[r].street = Chosen(page[r].streetOptions, request[r].strasse)
            /\ page[r].street \in Range(page[r].streetOptions) \ {Placeholder}
        /\ page[r].street_number # "" =>
            page[r].street_number =
                IF Unspecified(request[r].hausnummer) THEN "1" ELSE request[r].hausnummer
        /\ (Issued(r, "select:city") >= 1 /\ Fatal(r) = <<>>) => page[r].city # None
        /\ (Issued(r, "select:street") >= 1 /\ Fatal(r) = <<>>) => page[r].street # None
        /\ Issued(r, "fill:consum") >= 1 =>
              page[r].city # None /\ page[r].street # None /\ page[r].street_number # ""

\* C12 witness: a request with no city, street or house number has been
\* submitted with Berlin, Ackerstr and the house number 1.
C12_Witness ==
    \E r \in DOMAIN pc :
        /\ request[r].ort = None /\ request[r].strasse = None
        /\ request[r].hausnummer = None
        /\ page[r].city = "Berlin"
        /\ page[r].street = "Ackerstr"
        /\ page[r].street_number = "1"
        /\ Issued(r, "click:submit") = 1

-----------------------------------------------------------------------------
(* The returned sequence *)

\* The record expected for the j-th of the items whose parse does not throw.
ExpectedRecord(items, j) ==
    LET kept == SelectSeq(items, LAMBDA it : ~it.throws)
    IN IF WellFormed(kept[j]) THEN RecordOf(kept[j])
       ELSE BareRecord(Position(items, j) - 1)

\* The returned record is the extracted one, its commission apart.
SameRecord(returned, extracted) ==
    /\ returned.anbieter = extracted.anbieter
    /\ returned.tarif = extracted.tarif
    /\ returned.preis_monat = extracted.preis_monat
    /\ returned.preis_jahr = extracted.preis_jahr
    /\ returned.grundpreis = extracted.grundpreis
    /\ returned.arbeitspreis = extracted.arbeitspreis
    /\ returned.tariff_id = extracted.tariff_id

\* The returned sequence holds each extracted record once, in rendered order.
InRenderedOrder(r) ==
    LET items == page[r].items
        kept == SelectSeq(items, LAMBDA it : ~it.throws)
    IN /\ Len(response[r].tariffs) = Len(kept)
       /\ \A j \in 1..Len(kept) :
            SameRecord(response[r].tariffs[j], ExpectedRecord(items, j))

\* C13 as claimed: a request that returns success = true returns at least one
\* tariff, and its tariffs are the records of the rendered items in rendered
\* order, none of them moved, repeated or lost.
C13_SuccessIsNonEmptyInOrder ==
    \A r \in DOMAIN pc :
        (Returned(r) /\ IsPayload(response[r]) /\ response[r].success = TRUE) =>
            /\ response[r].tariffs # <<>>
            /\ InRenderedOrder(r)

\* C14 as claimed: however many result items the portal renders, no more
\* than 20 records are extracted, and no more than 20 are returned.
C14_AtMostTwentyRecords ==
    \A r \in DOMAIN pc :
        /\ Len(tariffs_data[r]) <= 20
        /\ (Returned(r) /\ IsPayload(response[r])) =>
              Len(response[r].tariffs) <= 20 /\ response[r].count <= 20

-----------------------------------------------------------------------------
(* Prices *)

\* The number a price text stands for in the German locale, written as its
\* decimal numeral; a numeral stands for itself, and so does an absent price.
ParsedPrice(text) ==
    CASE text = "1.234,56 €" -> "1234.56"
      [] text = "29,90€" -> "29.90"
      [] text = "31,50€" -> "31.50"
      [] OTHER -> text

\* The price fields of a record.
Prices(t) == <<t.preis_monat, t.preis_jahr, t.grundpreis, t.arbeitspreis>>

\* The request has returned success = true.
Succeeded(r) ==
    Returned(r) /\ IsPayload(response[r]) /\ response[r].success = TRUE

\* The items of run r whose parse does not throw.
Kept(r) == SelectSeq(page[r].items, LAMBDA it : ~it.throws)

\* C15 as claimed: the price fields of a returned record are the numbers
\* their texts stand for: 1234.56 for "1.234,56 €", 29.90 for "29,90€".
C15_PricesAreParsedNumbers ==
    \A r \in DOMAIN pc :
        Succeeded(r) =>
            \A j \in 1..Len(response[r].tariffs) :
                LET shown == Prices(ExpectedRecord(page[r].items, j))
                    returned == Prices(response[r].tariffs[j])
                IN \A k \in 1..4 :
                     /\ returned[k] = ParsedPrice(shown[k])
                     /\ ParsedPrice(returned[k]) = returned[k]

-----------------------------------------------------------------------------
(* The payload *)

-----------------------------------------------------------------------------
(* Termination *)

\* The waits of the handler and the statement each is issued at.
BoundedWaits ==
    {<<"wait_city", "wait:city">>, <<"wait_street", "wait:street">>,
     <<"wait_netz", "wait:netz">>, <<"wait_results", "wait:results">>}

\* C17: every request returns, with a payload or an error, whatever the
\* portal does: a wait the portal never satisfies ends in its timeout, the
\* handler leaves the statement of the wait, and the request returns a
\* failure.
C17_EveryRequestReturns ==
    /\ <>(\A r \in DOMAIN pc : Returned(r) /\ response[r] # NoResponse)
    /\ [](\A r \in DOMAIN pc :
            \A k \in 1..Len(raised[r]) :
                (/\ \E bw \in BoundedWaits : bw[1] = raised[r][k].at
                 /\ raised[r][k].msg \in {TimeoutMsg(FieldTimeout), TimeoutMsg(ResultsTimeout)})
                => /\ pc[r] # raised[r][k].at
                   /\ Issued(r, (CHOOSE bw \in BoundedWaits : bw[1] = raised[r][k].at)[2]) = 1
                   /\ Returned(r) => IsPayload(response[r]) /\ response[r].success = FALSE)

\* C17 witness: the portal rendered no result item, and the request has
\* returned a failure after the timeout of the wait.
C17_Witness ==
    \E r \in DOMAIN pc :
        /\ Returned(r)
        /\ RaisedAt(r, "wait_results", TimeoutMsg(ResultsTimeout))
        /\ Issued(r, "wait:results") = 1
        /\ IsPayload(response[r])
        /\ response[r].success = FALSE
        /\ page[r].items = <<>>

-----------------------------------------------------------------------------
(* The locators of a field *)

\* The fields of a record that are read from elements of the item, each with
\* its primary and its fallback locator.
Locators ==
    [anbieter |-> <<".egon-provider-name", "[data-field=provider]">>,
     tarif |-> <<".egon-tariff-name", "[data-field=tariff]">>,
     preis_monat |-> <<".egon-price-month", "[data-field=price_month]">>,
     preis_jahr |-> <<".egon-price-year", "[data-field=price_year]">>,
     grundpreis |-> <<".egon-base-price", "[data-field=base_price]">>,
     arbeitspreis |-> <<".egon-work-price", "[data-field=work_price]">>]

\* What a field holds when no locator yields a value.
Substitute(field) == IF field \in {"anbieter", "tarif"} THEN "" ELSE None

\* The locators of the field whose element the item holds.
Existing(item, field) ==
    {k \in 1..2 : Locators[field][k] \in DOMAIN item.els}

\* Those among them whose element holds more than white space.
Yielding(item, field) ==
    {k \in Existing(item, field) : Trim(item.els[Locators[field][k]]) # ""}

\* The text of the first of the locators ks, or the value otherwise.
FirstOf(item, field, ks, otherwise) ==
    IF ks = {} THEN otherwise
    ELSE Trim(item.els[Locators[field][CHOOSE k \in ks : \A m \in ks : k <= m]])

\* C18 as claimed: a field of an extracted record holds the text of the first
\* locator whose element exists, so the fallback is read only when the primary
\* element is absent; when neither element exists the lookup signals
\* FieldNotFound and no value is put in its place.
C18_FirstExistingLocatorOrSignal ==
    \A r \in DOMAIN pc :
        ExtractionDone(r) =>
            \A j \in 1..Len(tariffs_data[r]) : \A field \in DOMAIN Locators :
                tariffs_data[r][j][field] =
                    FirstOf(Kept(r)[j], field, Existing(Kept(r)[j], field), "FieldNotFound")

\* C18 as amended: a field of an extracted record holds the trimmed text of
\* the first locator, primary then fallback, whose element exists and holds
\* more than white space, so the fallback is read when the primary element is
\* absent and also when it is blank; when no locator yields a text, the field
\* holds a substitute, the empty string for provider and tariff name and an
\* absent value for the prices, and nothing is signalled: the extraction
\* raises nothing and the record is returned.  The id is resolved the same
\* way from data-tariff-id, then data-id, then the synthetic tariff_<index>.
C18_FirstYieldingLocatorOrSubstitute ==
    \A r \in DOMAIN pc :
        ExtractionDone(r) =>
            /\ Len(tariffs_data[r]) = Len(Kept(r))
            /\ \A j \in 1..Len(tariffs_data[r]) :
                LET item == Kept(r)[j]
                    ids == <<GetAttribute(item, "data-tariff-id"), GetAttribute(item, "data-id"),
                             "tariff_" \o ToString(Position(page[r].items, j) - 1)>>
                IN /\ \A field \in DOMAIN Locators :
                        tariffs_data[r][j][field] =
                            FirstOf(item, field, Yielding(item, field), Substitute(field))
                   /\ tariffs_data[r][j].tariff_id =
                        ids[CHOOSE k \in 1..3 :
                                /\ ids[k] \notin {None, ""}
                                /\ \A m \in 1..(k - 1) : ids[m] \in {None, ""}]
            /\ Fatal(r) = <<>>
            /\ Returned(r) => Succeeded(r) /\ Len(response[r].tariffs) = Len(Kept(r))

\* C18 witness: an item whose primary provider element is blank and whose
\* data-tariff-id is empty has been returned with the provider of its
\* fallback element, the tariff name of its primary element, the id of its
\* data-id and no prices.
C18_Witness ==
    \E r \in DOMAIN pc :
        /\ Succeeded(r)
        /\ page[r].items = <<ItemBlank>>
        /\ response[r].tariffs[1].anbieter = "Yello"
        /\ response[r].tariffs[1].tarif = "Basis"
        /\ response[r].tariffs[1].preis_monat = None
        /\ response[r].tariffs[1].tariff_id = "d5"

-----------------------------------------------------------------------------
(* The gate of the drill-down *)

\* The calls of the drill-down.
DrillDownCalls ==
    {"query:provision_btn", "click:provision_btn", "sleep:0.5", "evaluate:provision_value"}

\* C19: in a request with include_provisions = false, and in a request whose
\* extraction returned no tariff, no commission button is looked up or
\* clicked, no drill-down delay is taken and no commission is read; the
\* extracted records stay as the extraction returned them, and every
\* returned record has no commission and its other fields as extracted.
C19_DrillDownGated ==
    \A r \in DOMAIN pc :
        (\/ ~request[r].include_provisions
         \/ ExtractionDone(r) /\ tariffs_data[r] = <<>>) =>
            /\ \A call \in DrillDownCalls : Issued(r, call) = 0
            /\ pc[r] # "drill"
            /\ tariff_idx[r] = 1
            /\ ExtractionDone(r) =>
                /\ Len(tariffs_data[r]) = Len(Kept(r))
                /\ \A j \in 1..Len(tariffs_data[r]) :
                    tariffs_data[r][j] = ExpectedRecord(page[r].items, j)
            /\ Succeeded(r) =>
                /\ InRenderedOrder(r)
                /\ \A j \in 1..Len(response[r].tariffs) :
                    /\ response[r].tariffs[j].provision = None
                    /\ response[r].tariffs[j].provision_details = None

\* C19 witness: a request with include_provisions = false has returned the
\* record of an item that shows a commission button, without a commission.
C19_Witness ==
    \E r \in DOMAIN pc :
        /\ ~request[r].include_provisions
        /\ Succeeded(r)
        /\ page[r].items = <<ItemFallback, ItemFull>>
        /\ response[r].count = 2
        /\ response[r].tariffs[2].tariff_id = "t1"
        /\ response[r].tariffs[2].provision = None
        /\ Issued(r, "query:provision_btn") = 0

-----------------------------------------------------------------------------
(* The scope of a commission *)

\* The id of the item's record came from its data-tariff-id attribute.
IdFromTariffId(item) == GetAttribute(item, "data-tariff-id") \notin {None, ""}

\* The commission the item itself shows, absent when it shows none.
OwnProvision(item) ==
    IF ".egon-provision-value" \in DOMAIN item.els
    THEN Trim(item.els[".egon-provision-value"]) ELSE None

\* C20 as claimed: a record whose id did not come from its item's
\* data-tariff-id never has a commission button found or clicked for it and
\* never holds a commission; and a commission a record holds is the one its
\* own item shows, never the one of another item.
C20_CommissionScopedToItsTariff ==
    \A r \in DOMAIN pc :
        ExtractionDone(r) =>
            /\ \A j \in 1..Len(tariffs_data[r]) :
                /\ ~IdFromTariffId(Kept(r)[j]) =>
                    tariffs_data[r][j].provision \in {Undefined, None}
                /\ tariffs_data[r][j].provision \notin {Undefined, None} =>
                    tariffs_data[r][j].provision = OwnProvision(Kept(r)[j])
            /\ Issued(r, "click:provision_btn") <=
                 Cardinality({j \in 1..Len(tariffs_data[r]) :
                                 j < tariff_idx[r] /\ IdFromTariffId(Kept(r)[j])})

====
